---- MODULE Spec2Model ----
(***************************************************************************)
(* Model of the drift trading bot: src/src/drift-bot.ts (the bot) and the  *)
(* earlier stand-alone script src/unnamed/part_000 (the legacy script).    *)
(*                                                                         *)
(* One run of a script is one walk of `pc` through the await points of its *)
(* main().  Everything the exchange, the RPC node and the SDK answer is an *)
(* input drawn with \E at the step that asks for it.  The exchange calls   *)
(* of a run are recorded, in order, in `calls`.                            *)
(*                                                                         *)
(* Amounts of SOL are integers in units of 0.1 SOL (orderSize 0.1 = 1,     *)
(* depositAmount 0.5 = 5); wallet balances are integers in lamports.  A    *)
(* free-collateral reading is the number the code compares; the rounding   *)
(* of the two divisions by 1e9 in IEEE doubles is not modelled.            *)
(*                                                                         *)
(* The configuration values the operator edits in the source are inputs    *)
(* fixed at the start of a behaviour: BOT_CONFIG.useDelegate and           *)
(* BOT_CONFIG.orderSize of the bot, and DELEGATE_SECRET_KEY of the legacy  *)
(* script (checked in as the empty string, with which                      *)
(* Keypair.fromSecretKey throws).                                          *)
(***************************************************************************)
EXTENDS Integers, Sequences, FiniteSets, TLC

VARIABLES
    script,          \* which entry point runs: "bot" or "legacy"
    useDelegate,     \* BOT_CONFIG.useDelegate
    orderSize,       \* BOT_CONFIG.orderSize, in units of 0.1 SOL
    secretKeyLen,    \* byte length of DELEGATE_SECRET_KEY (legacy script)
    accountExists,   \* exchange side: the sub-account (wallet, 0) exists
    provisioned,     \* an earlier run of this behaviour saw the sub-account
    run,             \* number of the current run
    pc,              \* position of the current run in main()
    balance,         \* lamports returned by getBalance, -1 before the read
    hadUser,         \* result of hasUser(): "unread", "yes", "no"
    userAccount,     \* local userAccount: "undefined" or "present"
    tradingAccountBalance,     \* first reading in placeTrade, NoReading before
    newTradingAccountBalance,  \* reading after the deposit, NoReading before
    delegateAccount, \* keypair held by main: "null", "generated", "fromSecret"
    delegateDriftClient, \* "null", "constructed", "subscribed"
    tradingClient,   \* client handed to placeTrade: "none", "main", "delegate"
    calls,           \* exchange/SDK calls of this run, in order
    thrown,          \* the error object first thrown in this run, or NoError
    error,           \* the error main() rejected with, or NoError
    diag,            \* classification printed by a catch block
    exitCode,        \* argument of process.exit, -1 while not called
    spotPosition,    \* what getSpotPosition last returned, NoPosition before
    delegateKeypair, \* keypair made for the delegate in this run, or NoKeypair
    registeredDelegate, \* exchange side: public key registered as delegate
    delegateWallet   \* keypair of the wallet bound to the delegate client

vars == <<script, useDelegate, orderSize, secretKeyLen, accountExists,
          provisioned, run, pc, balance, hadUser, userAccount,
          tradingAccountBalance, newTradingAccountBalance, delegateAccount,
          delegateDriftClient, tradingClient, calls, thrown, error, diag,
          exitCode, spotPosition, delegateKeypair, registeredDelegate,
          delegateWallet>>

config == <<script, useDelegate, orderSize, secretKeyLen>>

keys == <<delegateKeypair, registeredDelegate, delegateWallet>>

----------------------------------------------------------------------------
(* Bounds of the model *)

MaxOrderSize == 2   \* order sizes 0.1 .. 0.1 * MaxOrderSize SOL
MaxRuns == 2        \* runs of the script against the same exchange state
MaxScaledBalance == 1   \* scaled balances 0 .. 0.1 * MaxScaledBalance SOL

(* Program constants *)

DepositAmount == 5              \* BOT_CONFIG.depositAmount = 0.5 SOL
CollateralMultiplier == 2       \* BOT_CONFIG.orderSize * 2
KeypairSecretBytes == 64        \* Keypair.fromSecretKey wants 64 bytes
LamportsPerSol == 1000000000    \* `lamportsBalance / 1e9`
LegacyDepositAmount == 5        \* legacy script deposits 0.5 SOL

\* amounts a position record can hold, in units of 0.1 SOL
Amounts == 0 .. (CollateralMultiplier * MaxOrderSize + 1)

\* lamports balances the RPC node can report: nothing, just under 0.1 SOL,
\* and 0.1 SOL
Lamports == {0, 99999999, 100000000}

\* stands for "not read yet": below every value a reading can take
NoReading == -(CollateralMultiplier * MaxOrderSize + 2)
NoError == [cls |-> "none", origin |-> "none", hasLogs |-> FALSE, logs |-> <<>>]

\* errors a rejected call can throw
PlainError(origin) ==
    [cls |-> "Error", origin |-> origin, hasLogs |-> FALSE, logs |-> <<>>]

\* log lines of a failed simulation, each a sequence of fragments; the
\* fragment "OrderAmountTooSmall" is what line 239 searches the lines for
LogSets ==
    { <<>>,
      << <<"Program log: ", "Error">> >>,
      << <<"Program log: ", "Error">>,
         <<"Program log: Error: ", "OrderAmountTooSmall", ": 6057">> >> }

SendTransactionErrors(origin) ==
    { [cls |-> "SendTransactionError", origin |-> origin,
       hasLogs |-> h, logs |-> l] :
         <<h, l>> \in ({TRUE} \X LogSets) \cup {<<FALSE, <<>>>>} }

Rejections(origin) == {PlainError(origin)} \cup SendTransactionErrors(origin)

\* one entry of `calls`
Call(op, via, ok, val, note) ==
    [op |-> op, via |-> via, ok |-> ok, val |-> val, note |-> note]

\* where in `calls` the calls of one kind stand
Positions(op) == {i \in DOMAIN calls : calls[i].op = op}

----------------------------------------------------------------------------
(* Pure helpers *)

\* JavaScript truthiness of a number
Truthy(n) == n # 0

\* position records getSpotPosition can return, and its other outcomes:
\* no record, a throw, and a record holding an amount of more than 53 bits,
\* on which BN.toNumber() throws
ScaledBalances == 0 .. MaxScaledBalance
Positions_ == [kind : {"record"}, cumulativeDeposits : Amounts,
               scaledBalance : ScaledBalances]
SpotOutcomes == Positions_
    \cup {[kind |-> "absent", cumulativeDeposits |-> 0, scaledBalance |-> 0],
          [kind |-> "throws", cumulativeDeposits |-> 0, scaledBalance |-> 0],
          [kind |-> "overflow", cumulativeDeposits |-> 0, scaledBalance |-> 0]}
NoPosition == [kind |-> "unread", cumulativeDeposits |-> 0, scaledBalance |-> 0]

\* mutant: the result clamped at zero
getTradingAccountBalanceClamped(pos) ==
    IF pos.kind = "record" /\ pos.cumulativeDeposits > pos.scaledBalance
    THEN pos.cumulativeDeposits - pos.scaledBalance
    ELSE 0

\* getTradingAccountBalance: the difference when a record exists, 0 when it
\* is absent or when the read or a conversion throws (the inner catch
\* swallows the error)
getTradingAccountBalance(pos) ==
    IF pos.kind = "record"
    THEN pos.cumulativeDeposits - pos.scaledBalance
    ELSE 0

\* keypairs by where their secret comes from; two keypairs are the same
\* exactly when they come from the same secret
NoKeypair == [origin |-> "none", run |-> 0]
\* main(), line 262: loadKeypair(PRIVATE_KEY)
MainKeypair == [origin |-> "PRIVATE_KEY", run |-> 0]
\* part_000, lines 70-72: Keypair.fromSecretKey(DELEGATE_SECRET_KEY)
SecretKeypair == [origin |-> "DELEGATE_SECRET_KEY", run |-> 0]

\* mutant: the delegate reuses the main wallet's keypair
generateDelegateKeypairFromMain == MainKeypair

\* lines 108-119: Keypair.generate(), from entropy drawn in this run
generateDelegateKeypair == [origin |-> "Keypair.generate", run |-> run]

\* keypair.publicKey
PublicKeyOf(keypair) == [publicKeyOf |-> keypair]

requiredCollateral == orderSize * CollateralMultiplier


\* main(), line 267: `balance < 0.1` with balance an integer of lamports
InsufficientBalance(lamports) == lamports * 10 < 1

\* mutant: the comparison with the required collateral left out
NeedsDepositOnlyWhenFalsy(bal) == ~Truthy(bal)

\* mutant: `<=` in place of `<`
NeedsDepositAtOrBelow(bal) == (~Truthy(bal)) \/ bal <= requiredCollateral

\* placeTrade, line 188: `!tradingAccountBalance || tradingAccountBalance < required`
NeedsDeposit(bal) == (~Truthy(bal)) \/ bal < requiredCollateral

\* placeTrade, line 204: `newTradingAccountBalance && newTradingAccountBalance < required`
StillInsufficient(bal) == Truthy(bal) /\ bal < requiredCollateral

\* mutant: the order always goes through the main client
SelectTradingClientMain == "main"

\* main(), lines 359-361: the client handed to placeTrade
SelectTradingClient == IF useDelegate THEN "delegate" ELSE "main"

\* mutants: a catch block that logs the error and does not rethrow it
SetupDelegateCatchSwallows(e) == NoError
PlaceTradeCatchSwallows(e) == NoError

\* catch blocks: each logs and rethrows the error it caught
\* lines 316-319
MainCreateCatch(e) == e
\* lines 102-105
DepositCatch(e) == e
\* lines 139-142
SetupDelegateCatch(e) == e
\* lines 170-173
CreateDelegateClientCatch(e) == e
\* lines 234-247
PlaceTradeCatch(e) == e

\* line 239: `log.includes("OrderAmountTooSmall")`
HasMarker(line) == \E k \in DOMAIN line : line[k] = "OrderAmountTooSmall"

\* mutant: only the first log line is searched
ClassifyFirstLineOnly(e) ==
    IF e.cls = "SendTransactionError"
    THEN IF e.hasLogs /\ e.logs # <<>> /\ HasMarker(e.logs[1])
         THEN "Order size too small"
         ELSE "Full error"
    ELSE "none"

\* placeTrade, lines 235-244: what the catch block prints about the error
Classify(e) ==
    IF e.cls = "SendTransactionError"
    THEN IF e.hasLogs /\ \E i \in DOMAIN e.logs : HasMarker(e.logs[i])
         THEN "Order size too small"
         ELSE "Full error"
    ELSE "none"

\* process.exit arguments, lines 371 and 375
ExitOnResolve == 0
ExitOnReject == 1

----------------------------------------------------------------------------
(* State changes shared by the actions *)

\* main() rejects with `final`; `orig` is the error as first thrown
Reject(orig, final) ==
    /\ thrown' = orig
    /\ error' = final
    /\ pc' = "rejected"

\* `orig` was thrown inside a try block whose catch block hands on `final`:
\* the error it rethrows, or NoError when it swallows the error and the
\* code goes on at `next`, the statement after the try
Caught(orig, final, next) ==
    /\ thrown' = orig
    /\ error' = final
    /\ pc' = IF final = NoError THEN next ELSE "rejected"

Goto(label) ==
    /\ pc' = label
    /\ UNCHANGED <<thrown, error>>

Log(entries) == calls' = calls \o entries

Init ==
    /\ script \in {"bot", "legacy"}
    /\ useDelegate \in BOOLEAN
    /\ orderSize \in 1 .. MaxOrderSize
    /\ secretKeyLen \in {0, KeypairSecretBytes}
    /\ accountExists \in BOOLEAN
    /\ provisioned = FALSE
    /\ run = 1
    /\ pc = "start"
    /\ balance = -1
    /\ hadUser = "unread"
    /\ userAccount = "undefined"
    /\ tradingAccountBalance = NoReading
    /\ newTradingAccountBalance = NoReading
    /\ delegateAccount = "null"
    /\ delegateDriftClient = "null"
    /\ tradingClient = "none"
    /\ calls = <<>>
    /\ thrown = NoError
    /\ error = NoError
    /\ diag = "none"
    /\ exitCode = -1
    /\ spotPosition = NoPosition
    /\ delegateKeypair = NoKeypair
    /\ registeredDelegate = PublicKeyOf(NoKeypair)
    /\ delegateWallet = NoKeypair

----------------------------------------------------------------------------
(* src/src/drift-bot.ts: main() up to the end of account provisioning *)

\* lines 266-270: read the wallet balance, return early when it is too low
GetBalance ==
    /\ script = "bot" /\ pc = "start"
    /\ \/ /\ Reject(PlainError("getBalance"), PlainError("getBalance"))
          /\ UNCHANGED balance
       \/ \E b \in Lamports :
            /\ balance' = b
            /\ Goto(IF InsufficientBalance(b) THEN "resolved" ELSE "subscribe")
    /\ UNCHANGED <<config, accountExists, provisioned, run, hadUser,
                   userAccount, tradingAccountBalance,
                   newTradingAccountBalance, delegateAccount,
                   delegateDriftClient, tradingClient, calls, diag, exitCode>>
    /\ UNCHANGED <<spotPosition, keys>>

\* lines 280-291: construct the main client and subscribe it
Subscribe ==
    /\ script = "bot" /\ pc = "subscribe"
    /\ \/ /\ Log(<<Call("subscribe", "main", TRUE, 0, "")>>)
          /\ Goto("hasUser")
       \/ /\ Log(<<Call("subscribe", "main", FALSE, 0, "")>>)
          /\ Reject(PlainError("subscribe"), PlainError("subscribe"))
    /\ UNCHANGED <<config, accountExists, provisioned, run, balance, hadUser,
                   userAccount, tradingAccountBalance,
                   newTradingAccountBalance, delegateAccount,
                   delegateDriftClient, tradingClient, diag, exitCode>>
    /\ UNCHANGED <<spotPosition, keys>>

\* mutant: the negation of line 295 dropped
ProvisionBranchInverted(exists) == IF exists THEN "create" ELSE "pubkey"

\* line 295: `if (!mainDriftClient.hasUser())`
ProvisionBranch(exists) == IF exists THEN "pubkey" ELSE "create"

\* line 306: `if (!userAccount)` after the first re-check
RetryRecheck(r) == r = "undefined"

\* mutant: the final check of line 311 left out
GiveUpNever(r) == FALSE

\* line 311: `if (!userAccount)` after the second re-check
GiveUp(r) == r = "undefined"

\* line 295 (and 320-322): does the sub-account already exist
HasUser ==
    /\ script = "bot" /\ pc = "hasUser"
    /\ hadUser' = IF accountExists THEN "yes" ELSE "no"
    /\ Log(<<Call("hasUser", "main", TRUE, 0, "")>>)
    /\ Goto(ProvisionBranch(accountExists))
    /\ UNCHANGED <<config, accountExists, provisioned, run, balance,
                   userAccount, tradingAccountBalance,
                   newTradingAccountBalance, delegateAccount,
                   delegateDriftClient, tradingClient, diag, exitCode>>
    /\ UNCHANGED <<spotPosition, keys>>

\* lines 296-299, 316-319: the creation request
InitializeUserAccount ==
    /\ script = "bot" /\ pc = "create"
    /\ \/ /\ accountExists' = TRUE
          /\ Log(<<Call("initializeUserAccount", "main", TRUE, 0, "")>>)
          /\ Goto("recheck1")
       \/ \E e \in Rejections("initializeUserAccount") :
            /\ Log(<<Call("initializeUserAccount", "main", FALSE, 0, "")>>)
            /\ Caught(e, MainCreateCatch(e), "pubkey")
            /\ UNCHANGED accountExists
    /\ UNCHANGED <<config, provisioned, run, balance, hadUser, userAccount,
                   tradingAccountBalance, newTradingAccountBalance,
                   delegateAccount, delegateDriftClient, tradingClient, diag,
                   exitCode>>
    /\ UNCHANGED <<spotPosition, keys>>

\* what getUserAccount() can answer: the cached account once the exchange
\* has it, or undefined while the polled cache has not caught up
UserAccountReads == IF accountExists THEN {"present", "undefined"}
                    ELSE {"undefined"}

\* lines 301-306: wait 5 s, first existence re-check
FirstRecheck ==
    /\ script = "bot" /\ pc = "recheck1"
    /\ \E r \in UserAccountReads :
         /\ userAccount' = r
         /\ Log(<<Call("wait", "timer", TRUE, 5000, "creation"),
                  Call("getUserAccount", "main", TRUE, 0, r)>>)
         /\ Goto(IF RetryRecheck(r) THEN "recheck2" ELSE "pubkey")
    /\ UNCHANGED <<config, accountExists, provisioned, run, balance, hadUser,
                   tradingAccountBalance, newTradingAccountBalance,
                   delegateAccount, delegateDriftClient, tradingClient, diag,
                   exitCode>>
    /\ UNCHANGED <<spotPosition, keys>>

\* lines 307-313, 316-319: wait 3 s, second re-check, give up when absent
SecondRecheck ==
    /\ script = "bot" /\ pc = "recheck2"
    /\ \E r \in UserAccountReads :
         /\ userAccount' = r
         /\ Log(<<Call("wait", "timer", TRUE, 3000, "creation"),
                  Call("getUserAccount", "main", TRUE, 0, r)>>)
         /\ IF GiveUp(r)
            THEN Caught(PlainError("stillNotFound"),
                        MainCreateCatch(PlainError("stillNotFound")), "pubkey")
            ELSE Goto("pubkey")
    /\ UNCHANGED <<config, accountExists, provisioned, run, balance, hadUser,
                   tradingAccountBalance, newTradingAccountBalance,
                   delegateAccount, delegateDriftClient, tradingClient, diag,
                   exitCode>>
    /\ UNCHANGED <<spotPosition, keys>>

----------------------------------------------------------------------------
(* src/src/drift-bot.ts: main() from the user handle to the delegate step *)

\* after the user handle: lines 343-361 choose the delegate step or the trade
AfterUser == IF useDelegate THEN "setupDelegate" ELSE "placeTrade"

\* line 324: resolve the sub-account's address
GetUserAccountPublicKey ==
    /\ script = "bot" /\ pc = "pubkey"
    /\ \/ Goto("userSubscribe")
       \/ Reject(PlainError("getUserAccountPublicKey"),
                 PlainError("getUserAccountPublicKey"))
    /\ UNCHANGED <<config, accountExists, provisioned, run, balance, hadUser,
                   userAccount, tradingAccountBalance,
                   newTradingAccountBalance, delegateAccount,
                   delegateDriftClient, tradingClient, calls, diag, exitCode>>
    /\ UNCHANGED <<spotPosition, keys>>

\* lines 328-337 (and 355-361 when delegate mode is off): subscribe the user
UserSubscribe ==
    /\ script = "bot" /\ pc = "userSubscribe"
    /\ \/ /\ Log(<<Call("subscribe", "user", TRUE, 0, "")>>)
          /\ Goto(AfterUser)
          /\ tradingClient' = IF useDelegate THEN tradingClient
                              ELSE SelectTradingClient
       \/ /\ Log(<<Call("subscribe", "user", FALSE, 0, "")>>)
          /\ Reject(PlainError("user.subscribe"), PlainError("user.subscribe"))
          /\ UNCHANGED tradingClient
    /\ UNCHANGED <<config, accountExists, provisioned, run, balance, hadUser,
                   userAccount, tradingAccountBalance,
                   newTradingAccountBalance, delegateAccount,
                   delegateDriftClient, diag, exitCode>>
    /\ UNCHANGED <<spotPosition, keys>>

\* lines 345-348 and 121-143: generate a keypair, register it as delegate
SetupDelegate ==
    /\ script = "bot" /\ pc = "setupDelegate"
    /\ \/ /\ Log(<<Call("generateKeypair", "local", TRUE, 0, ""),
                   Call("updateUserDelegate", "main", TRUE, 0, "")>>)
          /\ delegateAccount' = "generated"
          /\ registeredDelegate' = PublicKeyOf(generateDelegateKeypair)
          /\ Goto("createDelegateClient")
       \/ \E e \in Rejections("updateUserDelegate") :
            /\ Log(<<Call("generateKeypair", "local", TRUE, 0, ""),
                     Call("updateUserDelegate", "main", FALSE, 0, "")>>)
            /\ Caught(e, SetupDelegateCatch(e), "createDelegateClient")
            /\ UNCHANGED <<delegateAccount, registeredDelegate>>
    /\ UNCHANGED <<config, accountExists, provisioned, run, balance, hadUser,
                   userAccount, tradingAccountBalance,
                   newTradingAccountBalance, delegateDriftClient,
                   tradingClient, diag, exitCode>>
    /\ delegateKeypair' = generateDelegateKeypair
    /\ UNCHANGED <<spotPosition, delegateWallet>>

\* lines 349-361 and 145-174: construct the delegate-bound client, subscribe
CreateDelegateClient ==
    /\ script = "bot" /\ pc = "createDelegateClient"
    /\ \/ /\ Log(<<Call("newDriftClient", "delegate", TRUE, 0, ""),
                   Call("subscribe", "delegate", TRUE, 0, "")>>)
          /\ delegateDriftClient' = "subscribed"
          /\ tradingClient' = SelectTradingClient
          /\ Goto("placeTrade")
       \/ /\ Log(<<Call("newDriftClient", "delegate", TRUE, 0, ""),
                   Call("subscribe", "delegate", FALSE, 0, "")>>)
          /\ Caught(PlainError("delegate.subscribe"),
                    CreateDelegateClientCatch(PlainError("delegate.subscribe")),
                    "placeTrade")
          /\ UNCHANGED <<delegateDriftClient, tradingClient>>
    /\ UNCHANGED <<config, accountExists, provisioned, run, balance, hadUser,
                   userAccount, tradingAccountBalance,
                   newTradingAccountBalance, delegateAccount, diag, exitCode>>
    /\ delegateWallet' = delegateKeypair
    /\ UNCHANGED <<spotPosition, delegateKeypair, registeredDelegate>>

----------------------------------------------------------------------------
(* src/src/drift-bot.ts: placeTrade *)

\* an error leaves placeTrade through its catch block, lines 234-247
ThrowInPlaceTrade(orig, caught) ==
    /\ diag' = Classify(caught)
    /\ Caught(orig, PlaceTradeCatch(caught), "resolved")

\* line 178 (34-48): look the market up in the static registry
GetTokenInfo ==
    /\ script = "bot" /\ pc = "placeTrade"
    /\ \/ Goto("checkBalance") /\ UNCHANGED diag
       \/ ThrowInPlaceTrade(PlainError("getTokenInfo"),
                            PlainError("getTokenInfo"))
    /\ UNCHANGED <<config, accountExists, provisioned, run, balance, hadUser,
                   userAccount, tradingAccountBalance,
                   newTradingAccountBalance, delegateAccount,
                   delegateDriftClient, tradingClient, calls, exitCode>>
    /\ UNCHANGED <<spotPosition, keys>>

\* lines 185-192, 209-211: first free-collateral reading and the decision
CheckBalance ==
    /\ script = "bot" /\ pc = "checkBalance"
    /\ \E pos \in SpotOutcomes :
         LET bal == getTradingAccountBalance(pos) IN
         /\ tradingAccountBalance' = bal
         /\ spotPosition' = pos
         /\ Log(<<Call("getSpotPosition", "user", pos.kind # "throws", bal,
                       pos.kind)>>)
         /\ Goto(IF NeedsDeposit(bal) THEN "deposit" ELSE "order")
    /\ UNCHANGED <<config, accountExists, provisioned, run, balance, hadUser,
                   userAccount, newTradingAccountBalance, delegateAccount,
                   delegateDriftClient, tradingClient, diag, exitCode>>
    /\ UNCHANGED keys

\* an error thrown in depositToTradingAccount passes its catch block (lines
\* 102-105) and then placeTrade's
ThrowInDeposit(e) ==
    IF DepositCatch(e) = NoError
    THEN Caught(e, NoError, "recheckBalance") /\ UNCHANGED diag
    ELSE ThrowInPlaceTrade(e, DepositCatch(e))

\* line 193 and 78-106: the remediation deposit, through the client
\* placeTrade was handed
DepositToTradingAccount ==
    /\ script = "bot" /\ pc = "deposit"
    /\ \/ /\ Log(<<Call("deposit", tradingClient, TRUE, DepositAmount, "")>>)
          /\ Goto("recheckBalance")
          /\ UNCHANGED diag
       \/ \E e \in Rejections("deposit") :
            /\ Log(<<Call("deposit", tradingClient, FALSE, DepositAmount, "")>>)
            /\ ThrowInDeposit(e)
       \/ /\ UNCHANGED calls
          /\ ThrowInDeposit(PlainError("getAssociatedTokenAccount"))
    /\ UNCHANGED <<config, accountExists, provisioned, run, balance, hadUser,
                   userAccount, tradingAccountBalance,
                   newTradingAccountBalance, delegateAccount,
                   delegateDriftClient, tradingClient, exitCode>>
    /\ UNCHANGED <<spotPosition, keys>>

\* mutant: remediation in a loop, depositing again while the collateral
\* stays insufficient
RecheckBalanceRetries ==
    /\ script = "bot" /\ pc = "recheckBalance"
    /\ \E pos \in SpotOutcomes :
         LET bal == getTradingAccountBalance(pos) IN
         /\ newTradingAccountBalance' = bal
         /\ spotPosition' = pos
         /\ Log(<<Call("wait", "timer", TRUE, 5000, "settlement"),
                  Call("getSpotPosition", "user", pos.kind # "throws", bal,
                       pos.kind)>>)
         /\ Goto(IF StillInsufficient(bal) THEN "deposit" ELSE "order")
    /\ UNCHANGED <<config, accountExists, provisioned, run, balance, hadUser,
                   userAccount, tradingAccountBalance, delegateAccount,
                   delegateDriftClient, tradingClient, diag, exitCode>>
    /\ UNCHANGED keys

\* lines 195-208: wait 5 s, read the free collateral once more
RecheckBalance ==
    /\ script = "bot" /\ pc = "recheckBalance"
    /\ \E pos \in SpotOutcomes :
         LET bal == getTradingAccountBalance(pos) IN
         /\ newTradingAccountBalance' = bal
         /\ spotPosition' = pos
         /\ Log(<<Call("wait", "timer", TRUE, 5000, "settlement"),
                  Call("getSpotPosition", "user", pos.kind # "throws", bal,
                       pos.kind)>>)
         /\ IF StillInsufficient(bal)
            THEN ThrowInPlaceTrade(PlainError("stillInsufficient"),
                                   PlainError("stillInsufficient"))
            ELSE Goto("order") /\ UNCHANGED diag
    /\ UNCHANGED <<config, accountExists, provisioned, run, balance, hadUser,
                   userAccount, tradingAccountBalance, delegateAccount,
                   delegateDriftClient, tradingClient, exitCode>>
    /\ UNCHANGED keys

\* lines 213-233 and 234-247: build and submit the order
PlacePerpOrder ==
    /\ script = "bot" /\ pc = "order"
    /\ \/ /\ Log(<<Call("placePerpOrder", tradingClient, TRUE, orderSize, "")>>)
          /\ Goto("resolved")
          /\ UNCHANGED diag
       \/ \E e \in Rejections("placePerpOrder") :
            /\ Log(<<Call("placePerpOrder", tradingClient, FALSE, orderSize, "")>>)
            /\ ThrowInPlaceTrade(e, e)
    /\ UNCHANGED <<config, accountExists, provisioned, run, balance, hadUser,
                   userAccount, tradingAccountBalance,
                   newTradingAccountBalance, delegateAccount,
                   delegateDriftClient, tradingClient, exitCode>>
    /\ UNCHANGED <<spotPosition, keys>>

----------------------------------------------------------------------------
(* src/src/drift-bot.ts: lines 368-376, the exit-code mapping *)

ThenExit ==
    /\ script = "bot" /\ pc = "resolved"
    /\ exitCode' = ExitOnResolve
    /\ pc' = "exited"
    /\ UNCHANGED <<config, accountExists, provisioned, run, balance, hadUser,
                   userAccount, tradingAccountBalance,
                   newTradingAccountBalance, delegateAccount,
                   delegateDriftClient, tradingClient, calls, thrown, error,
                   diag>>
    /\ UNCHANGED <<spotPosition, keys>>

CatchExit ==
    /\ script = "bot" /\ pc = "rejected"
    /\ exitCode' = ExitOnReject
    /\ pc' = "exited"
    /\ UNCHANGED <<config, accountExists, provisioned, run, balance, hadUser,
                   userAccount, tradingAccountBalance,
                   newTradingAccountBalance, delegateAccount,
                   delegateDriftClient, tradingClient, calls, thrown, error,
                   diag>>
    /\ UNCHANGED <<spotPosition, keys>>

----------------------------------------------------------------------------
(* src/unnamed/part_000: the legacy script's main() *)

\* lines 94-103: construct the client and subscribe it
LegacySubscribe ==
    /\ script = "legacy" /\ pc = "start"
    /\ \/ /\ Log(<<Call("subscribe", "main", TRUE, 0, "")>>)
          /\ Goto("L_balance")
       \/ /\ Log(<<Call("subscribe", "main", FALSE, 0, "")>>)
          /\ Reject(PlainError("subscribe"), PlainError("subscribe"))
    /\ UNCHANGED <<config, accountExists, provisioned, run, balance, hadUser,
                   userAccount, tradingAccountBalance,
                   newTradingAccountBalance, delegateAccount,
                   delegateDriftClient, tradingClient, diag, exitCode>>
    /\ UNCHANGED <<spotPosition, keys>>

\* lines 106-109: the wallet balance is printed, never checked
LegacyGetBalance ==
    /\ script = "legacy" /\ pc = "L_balance"
    /\ \/ /\ Reject(PlainError("getBalance"), PlainError("getBalance"))
          /\ UNCHANGED balance
       \/ \E b \in Lamports :
            /\ balance' = b
            /\ Goto("L_pubkey")
    /\ UNCHANGED <<config, accountExists, provisioned, run, hadUser,
                   userAccount, tradingAccountBalance,
                   newTradingAccountBalance, delegateAccount,
                   delegateDriftClient, tradingClient, calls, diag, exitCode>>
    /\ UNCHANGED <<spotPosition, keys>>

\* lines 32-44 and 112-120: the helper answers null when the SDK call throws
LegacyGetUserAccountPublicKey ==
    /\ script = "legacy" /\ pc = "L_pubkey"
    /\ \E answer \in {"key", "null"} :
         /\ hadUser' = IF answer = "key" THEN "yes" ELSE "no"
         /\ Goto(IF answer = "key" THEN "L_newUser" ELSE "L_create")
    /\ UNCHANGED <<config, accountExists, provisioned, run, balance,
                   userAccount, tradingAccountBalance,
                   newTradingAccountBalance, delegateAccount,
                   delegateDriftClient, tradingClient, calls, diag, exitCode>>
    /\ UNCHANGED <<spotPosition, keys>>

\* lines 132-137: create the sub-account; the exchange refuses a second one
LegacyInitializeUserAccount ==
    /\ script = "legacy" /\ pc = "L_create"
    /\ \/ /\ ~accountExists
          /\ accountExists' = TRUE
          /\ Log(<<Call("initializeUserAccount", "main", TRUE, 0, "")>>)
          /\ Goto("L_deposit")
       \/ \E e \in Rejections("initializeUserAccount") :
            /\ Log(<<Call("initializeUserAccount", "main", FALSE, 0, "")>>)
            /\ Reject(e, e)
            /\ UNCHANGED accountExists
    /\ UNCHANGED <<config, provisioned, run, balance, hadUser, userAccount,
                   tradingAccountBalance, newTradingAccountBalance,
                   delegateAccount, delegateDriftClient, tradingClient, diag,
                   exitCode>>
    /\ UNCHANGED <<spotPosition, keys>>

\* lines 139-145: deposit 0.5 SOL into the new sub-account
LegacyDeposit ==
    /\ script = "legacy" /\ pc = "L_deposit"
    /\ \/ /\ Log(<<Call("deposit", "main", TRUE, LegacyDepositAmount, "")>>)
          /\ Goto("L_newUser")
       \/ \E e \in Rejections("deposit") :
            /\ Log(<<Call("deposit", "main", FALSE, LegacyDepositAmount, "")>>)
            /\ Reject(e, e)
       \/ /\ UNCHANGED calls
          /\ Reject(PlainError("getAssociatedTokenAccount"),
                    PlainError("getAssociatedTokenAccount"))
    /\ UNCHANGED <<config, accountExists, provisioned, run, balance, hadUser,
                   userAccount, tradingAccountBalance,
                   newTradingAccountBalance, delegateAccount,
                   delegateDriftClient, tradingClient, diag, exitCode>>
    /\ UNCHANGED <<spotPosition, keys>>

\* lines 122-129 and 147-154: the user handle, on either branch
LegacyNewUser ==
    /\ script = "legacy" /\ pc = "L_newUser"
    /\ \/ Goto("L_userSubscribe")
       \/ Reject(PlainError("getUserAccountPublicKey"),
                 PlainError("getUserAccountPublicKey"))
    /\ UNCHANGED <<config, accountExists, provisioned, run, balance, hadUser,
                   userAccount, tradingAccountBalance,
                   newTradingAccountBalance, delegateAccount,
                   delegateDriftClient, tradingClient, calls, diag, exitCode>>
    /\ UNCHANGED <<spotPosition, keys>>

\* line 157
LegacyUserSubscribe ==
    /\ script = "legacy" /\ pc = "L_userSubscribe"
    /\ \/ /\ Log(<<Call("subscribe", "user", TRUE, 0, "")>>)
          /\ Goto("L_initDelegate")
       \/ /\ Log(<<Call("subscribe", "user", FALSE, 0, "")>>)
          /\ Reject(PlainError("user.subscribe"), PlainError("user.subscribe"))
    /\ UNCHANGED <<config, accountExists, provisioned, run, balance, hadUser,
                   userAccount, tradingAccountBalance,
                   newTradingAccountBalance, delegateAccount,
                   delegateDriftClient, tradingClient, diag, exitCode>>
    /\ UNCHANGED <<spotPosition, keys>>

\* Keypair.fromSecretKey, line 72: accepts a 64-byte secret key only
SecretKeyAccepted(len) == len = KeypairSecretBytes

\* lines 69-75 and 163: the delegate keypair from DELEGATE_SECRET_KEY
LegacyInitDelegateAccount ==
    /\ script = "legacy" /\ pc = "L_initDelegate"
    /\ IF SecretKeyAccepted(secretKeyLen)
       THEN /\ delegateAccount' = "fromSecret"
            /\ delegateKeypair' = SecretKeypair
            /\ Goto("L_delegateClient")
       ELSE /\ Reject(PlainError("bad secret key size"),
                      PlainError("bad secret key size"))
            /\ UNCHANGED <<delegateAccount, delegateKeypair>>
    /\ UNCHANGED <<config, accountExists, provisioned, run, balance, hadUser,
                   userAccount, tradingAccountBalance,
                   newTradingAccountBalance, delegateDriftClient,
                   tradingClient, calls, diag, exitCode>>
    /\ UNCHANGED <<spotPosition, registeredDelegate, delegateWallet>>

\* lines 166-178: the delegate-bound client
LegacyDelegateClient ==
    /\ script = "legacy" /\ pc = "L_delegateClient"
    /\ \/ /\ Log(<<Call("newDriftClient", "delegate", TRUE, 0, ""),
                   Call("subscribe", "delegate", TRUE, 0, "")>>)
          /\ delegateDriftClient' = "subscribed"
          /\ tradingClient' = "delegate"
          /\ Goto("L_tokenInfo")
       \/ /\ Log(<<Call("newDriftClient", "delegate", TRUE, 0, ""),
                   Call("subscribe", "delegate", FALSE, 0, "")>>)
          /\ Reject(PlainError("delegate.subscribe"),
                    PlainError("delegate.subscribe"))
          /\ UNCHANGED <<delegateDriftClient, tradingClient>>
    /\ UNCHANGED <<config, accountExists, provisioned, run, balance, hadUser,
                   userAccount, tradingAccountBalance,
                   newTradingAccountBalance, delegateAccount, diag, exitCode>>
    /\ delegateWallet' = delegateKeypair
    /\ UNCHANGED <<spotPosition, delegateKeypair, registeredDelegate>>

\* lines 46-54 and 180-182
LegacyGetTokenInfo ==
    /\ script = "legacy" /\ pc = "L_tokenInfo"
    /\ \/ Goto("L_order")
       \/ Reject(PlainError("getTokenInfo"), PlainError("getTokenInfo"))
    /\ UNCHANGED <<config, accountExists, provisioned, run, balance, hadUser,
                   userAccount, tradingAccountBalance,
                   newTradingAccountBalance, delegateAccount,
                   delegateDriftClient, tradingClient, calls, diag, exitCode>>
    /\ UNCHANGED <<spotPosition, keys>>

\* lines 195-200: the catch block prints the error and does not rethrow
LegacyOrderCatch(e) == NoError

\* lines 196-199: what the catch block prints
LegacyClassify(e) ==
    IF e.cls = "SendTransactionError" THEN "Simulation Logs" ELSE "Full error"

\* lines 184-200: submit the order through the delegate client
LegacyPlacePerpOrder ==
    /\ script = "legacy" /\ pc = "L_order"
    /\ \/ /\ Log(<<Call("placePerpOrder", tradingClient, TRUE, 0, "")>>)
          /\ Goto("resolved")
          /\ UNCHANGED diag
       \/ \E e \in Rejections("placePerpOrder") :
            /\ Log(<<Call("placePerpOrder", tradingClient, FALSE, 0, "")>>)
            /\ diag' = LegacyClassify(e)
            /\ Caught(e, LegacyOrderCatch(e), "resolved")
    /\ UNCHANGED <<config, accountExists, provisioned, run, balance, hadUser,
                   userAccount, tradingAccountBalance,
                   newTradingAccountBalance, delegateAccount,
                   delegateDriftClient, tradingClient, exitCode>>
    /\ UNCHANGED <<spotPosition, keys>>

\* lines 203-207: main() resolved
LegacyThen ==
    /\ script = "legacy" /\ pc = "resolved"
    /\ exitCode' = ExitOnResolve
    /\ pc' = "exited"
    /\ UNCHANGED <<config, accountExists, provisioned, run, balance, hadUser,
                   userAccount, tradingAccountBalance,
                   newTradingAccountBalance, delegateAccount,
                   delegateDriftClient, tradingClient, calls, thrown, error,
                   diag>>
    /\ UNCHANGED <<spotPosition, keys>>

\* lines 208-210: main() rejected; the handler logs and calls no process.exit
LegacyCatch ==
    /\ script = "legacy" /\ pc = "rejected"
    /\ pc' = "ended"
    /\ UNCHANGED <<config, accountExists, provisioned, run, balance, hadUser,
                   userAccount, tradingAccountBalance,
                   newTradingAccountBalance, delegateAccount,
                   delegateDriftClient, tradingClient, calls, thrown, error,
                   diag, exitCode>>
    /\ UNCHANGED <<spotPosition, keys>>

----------------------------------------------------------------------------
(* The operator starts the script again: a fresh process against the same  *)
(* exchange state.                                                         *)

SawAccount == hadUser = "yes" \/ userAccount = "present"

NewRun ==
    /\ pc \in {"exited", "ended"}
    /\ run < MaxRuns
    /\ run' = run + 1
    /\ provisioned' = (provisioned \/ SawAccount)
    /\ pc' = "start"
    /\ balance' = -1
    /\ hadUser' = "unread"
    /\ userAccount' = "undefined"
    /\ tradingAccountBalance' = NoReading
    /\ newTradingAccountBalance' = NoReading
    /\ delegateAccount' = "null"
    /\ delegateDriftClient' = "null"
    /\ tradingClient' = "none"
    /\ calls' = <<>>
    /\ thrown' = NoError
    /\ error' = NoError
    /\ diag' = "none"
    /\ exitCode' = -1
    /\ spotPosition' = NoPosition
    /\ delegateKeypair' = NoKeypair
    /\ delegateWallet' = NoKeypair
    /\ UNCHANGED <<config, accountExists, registeredDelegate>>

Next ==
    \/ GetBalance \/ Subscribe \/ HasUser \/ InitializeUserAccount
    \/ FirstRecheck \/ SecondRecheck \/ GetUserAccountPublicKey
    \/ UserSubscribe \/ SetupDelegate \/ CreateDelegateClient
    \/ GetTokenInfo \/ CheckBalance \/ DepositToTradingAccount
    \/ RecheckBalance \/ PlacePerpOrder \/ ThenExit \/ CatchExit
    \/ LegacySubscribe \/ LegacyGetBalance \/ LegacyGetUserAccountPublicKey
    \/ LegacyInitializeUserAccount \/ LegacyDeposit \/ LegacyNewUser
    \/ LegacyUserSubscribe \/ LegacyInitDelegateAccount
    \/ LegacyDelegateClient \/ LegacyGetTokenInfo \/ LegacyPlacePerpOrder
    \/ LegacyThen \/ LegacyCatch
    \/ NewRun

Spec == Init /\ [][Next]_vars

\* a step of the current run: the event loop resumes main() whenever the
\* awaited call has settled or the timer has fired
RunStep == Next /\ run' = run

\* every awaited call settles and every timer fires, so a run that can take
\* a step takes one; nothing obliges the operator to start another run
LiveSpec == Spec /\ WF_vars(RunStep)

----------------------------------------------------------------------------
(* Vocabulary of the properties *)

Bot == script = "bot"

Finished == pc \in {"exited", "ended"}

Reads == Positions("getSpotPosition")
Deposits == Positions("deposit")
Orders == Positions("placePerpOrder")
Registrations == Positions("updateUserDelegate")

MaxOf(S) == CHOOSE m \in S : \A x \in S : x <= m

\* the free-collateral reading most recently returned before call i
ReadsBefore(i) == {j \in Reads : j < i}
LastReadingBefore(i) == calls[MaxOf(ReadsBefore(i))].val

\* an order was submitted and confirmed
OrderConfirmed == \E i \in Orders : calls[i].ok

----------------------------------------------------------------------------
(* C1: an order submission is never attempted when the most recent         *)
(* free-collateral reading is below 2 * orderSize; when the re-read after  *)
(* the deposit is still below, the run fails and submits no order.         *)
(* The bot violates it: a re-read of exactly 0 (an absent record, a read   *)
(* that throws, or deposits equal to the scaled balance) is falsy at line  *)
(* 204, so no error is thrown and the order is submitted.                  *)

C1_NoSubmissionBelowThreshold ==
    Bot =>
      /\ \A i \in Orders :
           /\ ReadsBefore(i) # {}
           /\ LastReadingBefore(i) >= requiredCollateral
      /\ (/\ newTradingAccountBalance # NoReading
          /\ newTradingAccountBalance < requiredCollateral
          /\ pc \in {"resolved", "rejected", "exited"})
            => (Orders = {} /\ thrown.origin = "stillInsufficient")

----------------------------------------------------------------------------
(* C2: the process exits with status 0 only when an order was submitted    *)
(* and confirmed; every run that stops earlier exits with a non-zero       *)
(* status.  The bot violates it: with a wallet balance below the check of  *)
(* line 267 main() returns, the promise resolves and line 371 exits 0.     *)

C2_ExitZeroOnlyWhenDone ==
    (Bot /\ pc = "exited") => (exitCode = 0 <=> OrderConfirmed)

----------------------------------------------------------------------------
(* C3: in delegate mode the delegate registration is issued only after the *)
(* collateral was found sufficient, and a run that fails for insufficient  *)
(* collateral has issued no registration.  The bot violates it: main()     *)
(* registers the delegate (line 345) before placeTrade reads the           *)
(* collateral (line 185).                                                  *)

C3_CollateralBeforeDelegate ==
    Bot =>
      /\ \A i \in Registrations :
           /\ ReadsBefore(i) # {}
           /\ LastReadingBefore(i) >= requiredCollateral
      /\ thrown.origin = "stillInsufficient" => Registrations = {}

----------------------------------------------------------------------------
(* C4: at most one deposit call is issued in a run, only when the first    *)
(* free-collateral reading was below 2 * orderSize, and it is never        *)
(* repeated whatever the re-read returns.                                  *)

Creations == Positions("initializeUserAccount")
Rechecks == Positions("getUserAccount")
ReadsAfter(i) == {j \in Reads : j > i}

\* the run is about to submit the order, has submitted it, or has failed
Decided == pc \in {"order", "resolved", "rejected", "exited"}

DepositOnlyOnceWhenBelow ==
    /\ Cardinality(Deposits) <= 1
    /\ \A i \in Deposits :
         /\ Cardinality(ReadsBefore(i)) = 1
         /\ tradingAccountBalance = LastReadingBefore(i)
         /\ tradingAccountBalance < requiredCollateral

\* C4 as stated: every deposit call is followed by exactly one further
\* reading before the run submits or fails.  Violated by a rejected deposit
\* call, after which the run fails without reading again.
C4_DepositThenExactlyOneRead ==
    Bot =>
      /\ DepositOnlyOnceWhenBelow
      /\ Decided => \A i \in Deposits : Cardinality(ReadsAfter(i)) = 1

\* C4 amended: a deposit call that succeeds is followed by exactly one
\* further reading before the run submits or fails; a deposit call that is
\* rejected fails the run with no further reading.
C4_DepositOnceThenOneReadIfAccepted ==
    Bot =>
      /\ DepositOnlyOnceWhenBelow
      /\ Decided =>
           \A i \in Deposits :
             Cardinality(ReadsAfter(i)) = IF calls[i].ok THEN 1 ELSE 0
      /\ \A i \in Deposits : ~calls[i].ok => (Orders = {} /\ pc # "order")

C4_Witness ==
    /\ Bot /\ pc = "exited"
    /\ \E i \in Deposits : calls[i].ok /\ Cardinality(ReadsAfter(i)) = 1
    /\ newTradingAccountBalance >= requiredCollateral
    /\ OrderConfirmed

----------------------------------------------------------------------------
(* C5: after a creation request the bot re-checks existence at most twice, *)
(* the second time only when the first still found the sub-account absent, *)
(* and issues the creation request at most once; when the second re-check  *)
(* still finds it absent the run fails and issues no deposit, delegate     *)
(* registration or order submission.                                       *)

StillAbsentTwice ==
    \E r1, r2 \in Rechecks :
      r1 < r2 /\ calls[r1].note = "undefined" /\ calls[r2].note = "undefined"

C5_BoundedProvisioning ==
    Bot =>
      /\ Cardinality(Creations) <= 1
      /\ Cardinality(Rechecks) <= 2
      /\ \A r \in Rechecks : \E c \in Creations : c < r /\ calls[c].ok
      /\ \A r1, r2 \in Rechecks : r1 < r2 => calls[r1].note = "undefined"
      /\ StillAbsentTwice =>
           /\ pc \in {"rejected", "exited"}
           /\ thrown.origin = "stillNotFound"
           /\ error = thrown
           /\ Deposits = {} /\ Registrations = {} /\ Orders = {}
           /\ pc = "exited" => exitCode = 1

C5_Witness == Bot /\ StillAbsentTwice /\ pc = "exited"

----------------------------------------------------------------------------
(* C6: when the sub-account is present at the existence check, the run     *)
(* issues no creation call, waits for nothing and re-checks nothing, and   *)
(* goes straight on to the user handle; a run that follows one in which    *)
(* the sub-account was seen issues no creation call.                       *)

CreationWaits == {i \in DOMAIN calls :
                    calls[i].op = "wait" /\ calls[i].note = "creation"}

C6_ProvisioningIdempotent ==
    Bot =>
      /\ hadUser = "yes" =>
           /\ Creations = {} /\ Rechecks = {} /\ CreationWaits = {}
           /\ pc \notin {"create", "recheck1", "recheck2"}
           /\ \A i \in Positions("hasUser") :
                (i + 1) \in DOMAIN calls =>
                  (calls[i + 1].op = "subscribe" /\ calls[i + 1].via = "user")
      /\ provisioned =>
           /\ Creations = {}
           /\ hadUser \in {"unread", "yes"}

C6_Witness ==
    /\ Bot /\ run = 2 /\ provisioned /\ hadUser = "yes"
    /\ OrderConfirmed /\ pc = "exited"

----------------------------------------------------------------------------
(* C7: a rejected order submission is fatal and never retried: a run calls *)
(* placePerpOrder at most once, and when the call is rejected the run ends *)
(* failed, with a non-zero exit status, not reporting success.             *)
(* The legacy script violates it: its catch block (part_000 lines 195-200) *)
(* prints the error without rethrowing, main() resolves and line 206       *)
(* exits 0.                                                                *)

OrderRejected == \E i \in Orders : ~calls[i].ok

C7_RejectedOrderIsFatal ==
    /\ Cardinality(Orders) <= 1
    /\ (Finished /\ OrderRejected) =>
         (exitCode # ExitOnResolve /\ error # NoError)

----------------------------------------------------------------------------
(* C8: once a step of the bot has failed, the run issues no further        *)
(* exchange call, the error reaches the exit-code mapping unchanged and    *)
(* the process exits non-zero; nothing recovers from the failure.          *)

C8_FailedIsAbsorbing ==
    /\ [](Bot /\ thrown # NoError =>
            /\ error = thrown
            /\ pc \in {"rejected", "exited"}
            /\ pc = "exited" => exitCode = 1)
    /\ [][(Bot /\ thrown # NoError /\ run' = run) =>
            /\ calls' = calls
            /\ accountExists' = accountExists
            /\ thrown' = thrown /\ error' = error]_vars

C8_Witness ==
    /\ Bot /\ pc = "exited" /\ exitCode = 1
    /\ thrown.origin = "deposit" /\ thrown.cls = "SendTransactionError"
    /\ Cardinality(Deposits) = 1 /\ Orders = {}

----------------------------------------------------------------------------
(* C9: in delegate mode, a rejected delegate registration is not retried;  *)
(* the run fails with the registration's error, submits no order,          *)
(* constructs no delegate-bound client and issues no deposit.              *)

RegistrationRejected == \E i \in Registrations : ~calls[i].ok

C9_RejectedRegistrationIsFatal ==
    (Bot /\ RegistrationRejected) =>
      /\ useDelegate
      /\ Cardinality(Registrations) = 1
      /\ Orders = {} /\ Deposits = {}
      /\ Positions("newDriftClient") = {}
      /\ delegateAccount = "null" /\ delegateDriftClient = "null"
      /\ tradingClient = "none"
      /\ pc \in {"rejected", "exited"}
      /\ thrown.origin = "updateUserDelegate" /\ error = thrown
      /\ pc = "exited" => exitCode = 1

C9_Witness == Bot /\ RegistrationRejected /\ pc = "exited"

----------------------------------------------------------------------------
(* C10: with delegate mode off the bot generates no keypair, registers no  *)
(* delegate, constructs no second client and submits the order through the *)
(* main client; with delegate mode on it submits the order through the     *)
(* delegate-bound client, after the registration call and the delegate     *)
(* client's subscription have both succeeded.                              *)

DelegateSubscriptions ==
    {i \in DOMAIN calls : calls[i].op = "subscribe" /\ calls[i].via = "delegate"}

C10_DelegateStepGated ==
    Bot =>
      /\ ~useDelegate =>
           /\ Positions("generateKeypair") = {}
           /\ Registrations = {}
           /\ Positions("newDriftClient") = {}
           /\ delegateAccount = "null" /\ delegateDriftClient = "null"
           /\ tradingClient \in {"none", "main"}
           /\ \A i \in Orders : calls[i].via = "main"
      /\ useDelegate =>
           \A i \in Orders :
             /\ calls[i].via = "delegate"
             /\ \E j \in Registrations, k \in DelegateSubscriptions :
                  j < k /\ k < i /\ calls[j].ok /\ calls[k].ok

C10_Witness ==
    /\ Bot /\ useDelegate /\ OrderConfirmed
    /\ \A i \in Orders : calls[i].via = "delegate"

----------------------------------------------------------------------------
(* C11: with delegate mode off, a run that reaches Done (order submitted   *)
(* and confirmed, exit status 0) has issued exactly one order submission,  *)
(* one creation call exactly when the sub-account was absent at start, and *)
(* one deposit call exactly when the first free-collateral reading was     *)
(* below 2 * orderSize.                                                    *)

Done == pc = "exited" /\ exitCode = 0 /\ OrderConfirmed

C11_CallCountsOfSuccessfulRun ==
    (Bot /\ ~useDelegate /\ Done) =>
      /\ Cardinality(Orders) = 1
      /\ Cardinality(Creations) = IF hadUser = "no" THEN 1 ELSE 0
      /\ \A i \in Creations : calls[i].ok
      /\ Cardinality(Deposits) =
           IF tradingAccountBalance < requiredCollateral THEN 1 ELSE 0
      /\ \A i \in Deposits : calls[i].ok /\ calls[i].val = DepositAmount

\* Scenario A: sub-account absent, collateral 0, deposit 0.5, order size 0.1
C11_Witness ==
    /\ Bot /\ ~useDelegate /\ Done
    /\ orderSize = 1 /\ hadUser = "no" /\ tradingAccountBalance = 0
    /\ Cardinality(Creations) = 1 /\ Cardinality(Deposits) = 1
    /\ Cardinality(Orders) = 1

----------------------------------------------------------------------------
(* C12: a rejected order is classified as "order too small" exactly when   *)
(* it is a SendTransactionError whose logs contain the marker, as a plain  *)
(* simulation failure for any other SendTransactionError, and not as a     *)
(* simulation failure for any other error; the error handed on to the      *)
(* caller is the one thrown, with its logs unchanged.                      *)

MarkerInLogsOf(e) ==
    /\ e.hasLogs
    /\ \E i \in DOMAIN e.logs :
         \E k \in DOMAIN e.logs[i] : e.logs[i][k] = "OrderAmountTooSmall"

C12_OrderFailureClassified ==
    (Bot /\ OrderRejected) =>
      /\ thrown.origin = "placePerpOrder"
      /\ (diag = "Order size too small") <=>
           (thrown.cls = "SendTransactionError" /\ MarkerInLogsOf(thrown))
      /\ (diag = "Full error") <=>
           (thrown.cls = "SendTransactionError" /\ ~MarkerInLogsOf(thrown))
      /\ (diag = "none") <=> (thrown.cls # "SendTransactionError")
      /\ error = thrown
      /\ error.hasLogs = thrown.hasLogs /\ error.logs = thrown.logs

C12_Witness ==
    /\ Bot /\ OrderRejected /\ pc = "exited"
    /\ diag = "Order size too small"
    /\ MarkerInLogsOf(error)

----------------------------------------------------------------------------
(* C13: every run of the bot terminates: whatever the exchange answers,    *)
(* the run moves strictly forward through its steps, revisits none, and    *)
(* reaches the exit (Done or Failed) after a bounded number of steps.      *)

\* the order of the steps of main(); every step of a run must raise it
Rank(label) ==
    CASE label = "start" -> 0
      [] label = "subscribe" -> 1
      [] label = "hasUser" -> 2
      [] label = "create" -> 3
      [] label = "recheck1" -> 4
      [] label = "recheck2" -> 5
      [] label = "pubkey" -> 6
      [] label = "userSubscribe" -> 7
      [] label = "setupDelegate" -> 8
      [] label = "createDelegateClient" -> 9
      [] label = "placeTrade" -> 10
      [] label = "checkBalance" -> 11
      [] label = "deposit" -> 12
      [] label = "recheckBalance" -> 13
      [] label = "order" -> 14
      [] label = "resolved" -> 15
      [] label = "rejected" -> 15
      [] label = "exited" -> 16

C13_EveryRunTerminates ==
    /\ [][(Bot /\ run' = run) => Rank(pc') > Rank(pc)]_vars
    /\ [](Bot => (pc = "exited" \/ ENABLED RunStep))
    /\ (Bot /\ pc = "start") ~> (pc = "exited" /\ exitCode \in {0, 1})

\* the longest run: creation, both re-checks, delegate, deposit, order
C13_Witness ==
    /\ Bot /\ pc = "exited" /\ useDelegate
    /\ Cardinality(Rechecks) = 2 /\ Cardinality(Deposits) = 1
    /\ OrderConfirmed

----------------------------------------------------------------------------
(* C14: in a delegate-mode run the keypair registered as delegate is       *)
(* generated in that run, is not the main wallet's keypair and does not    *)
(* come from the main wallet's secret; the public key registered with the  *)
(* exchange is the public key of that keypair and of the wallet bound to   *)
(* the delegate client.                                                    *)

RegistrationAccepted == \E i \in Registrations : calls[i].ok

C14_DelegateIsolation ==
    (Bot /\ Registrations # {}) =>
      /\ delegateKeypair.origin = "Keypair.generate"
      /\ delegateKeypair.run = run
      /\ delegateKeypair # MainKeypair
      /\ delegateKeypair.origin # MainKeypair.origin
      /\ RegistrationAccepted =>
           /\ registeredDelegate = PublicKeyOf(delegateKeypair)
           /\ registeredDelegate # PublicKeyOf(MainKeypair)
      /\ delegateDriftClient = "subscribed" =>
           /\ delegateWallet = delegateKeypair
           /\ PublicKeyOf(delegateWallet) = registeredDelegate

C14_Witness ==
    /\ Bot /\ run = 2 /\ useDelegate /\ OrderConfirmed
    /\ registeredDelegate = PublicKeyOf(delegateWallet)
    /\ delegateWallet.run = 2

----------------------------------------------------------------------------
(* C15: getTradingAccountBalance returns cumulativeDeposits minus          *)
(* scaledBalance when a position record exists and 0 when it is absent;    *)
(* it surfaces no error, so an absent record leads to the deposit, not to  *)
(* a failure.                                                              *)

LatestReading ==
    IF newTradingAccountBalance # NoReading THEN newTradingAccountBalance
    ELSE tradingAccountBalance

FirstRead == CHOOSE i \in Reads : \A j \in Reads : i <= j

\* an absent record at the first reading sends the run to the deposit
AbsentLeadsToDeposit ==
    (Reads # {} /\ calls[FirstRead].note = "absent") =>
      /\ tradingAccountBalance = 0
      /\ \/ pc = "deposit"
         \/ Deposits # {}
         \/ thrown.origin = "getAssociatedTokenAccount"

\* no error of the run comes out of the balance read
NoReadErrorSurfaces ==
    /\ thrown.origin # "getSpotPosition"
    /\ error.origin # "getSpotPosition"

\* C15 as stated, with "the result is never negative".  Violated by a
\* record whose scaled balance exceeds its cumulative deposits, and by a
\* record whose amounts BN.toNumber() cannot convert (the result is 0).
C15_BalanceIsDifferenceNeverNegative ==
    (Bot /\ spotPosition # NoPosition) =>
      /\ spotPosition.kind = "record" =>
           LatestReading =
             spotPosition.cumulativeDeposits - spotPosition.scaledBalance
      /\ spotPosition.kind # "overflow"
      /\ spotPosition.kind = "absent" => LatestReading = 0
      /\ LatestReading >= 0
      /\ NoReadErrorSurfaces
      /\ AbsentLeadsToDeposit

\* C15 amended: the difference (negative when the scaled balance is the
\* larger) for a record whose amounts convert to numbers; 0 when the record
\* is absent, the read throws or an amount does not convert.
C15_BalanceIsDifferenceOrZero ==
    (Bot /\ spotPosition # NoPosition) =>
      /\ spotPosition.kind = "record" =>
           LatestReading =
             spotPosition.cumulativeDeposits - spotPosition.scaledBalance
      /\ spotPosition.kind \in {"absent", "throws", "overflow"} =>
           LatestReading = 0
      /\ LatestReading >= -MaxScaledBalance
      /\ NoReadErrorSurfaces
      /\ AbsentLeadsToDeposit

C15_Witness ==
    /\ Bot /\ spotPosition.kind = "record"
    /\ spotPosition.scaledBalance > spotPosition.cumulativeDeposits
    /\ tradingAccountBalance < 0 /\ pc = "deposit"

----------------------------------------------------------------------------
(* C16: the trade executor does not remediate: every deposit of a run goes *)
(* through the main wallet's client, and the client handed to placeTrade   *)
(* is never used for a deposit.  The bot violates it: placeTrade itself    *)
(* deposits (line 193) through the client it was handed, which in delegate *)
(* mode is the delegate-bound client.                                      *)

C16_DepositsThroughMainClient ==
    Bot =>
      \A i \in Deposits :
        /\ calls[i].via = "main"
        /\ useDelegate => calls[i].via # tradingClient

----------------------------------------------------------------------------
(* C17: a wallet holding less than 0.1 SOL stops the run right after the   *)
(* balance check, with no client subscribed and no exchange call issued; a *)
(* wallet holding at least 0.1 SOL lets the run go on to provisioning.     *)
(* The bot violates it: line 267 compares the balance in lamports with     *)
(* 0.1, so only a balance of 0 lamports stops the run.                     *)

StoppedAtBalanceCheck ==
    pc \in {"resolved", "exited"} /\ calls = <<>> /\ thrown = NoError

C17_BalancePrecondition ==
    (Bot /\ balance >= 0) =>
      IF balance * 10 < LamportsPerSol
      THEN StoppedAtBalanceCheck
      ELSE ~StoppedAtBalanceCheck

====
